---- MODULE Spec2Model ----
(***************************************************************************)
(* A model of Pizza.cpp: the Pizza products, the PizzaBuilder, the Payment *)
(* strategies (with the ExternalPaymentAdapter), the Observers, the Order  *)
(* aggregate and the interactive main().                                   *)
(*                                                                         *)
(* Prices are C++ doubles in the source.  Every price the program can form *)
(* is a small non-negative integer (sums of 40, 50, 10, 12 and 8), which a *)
(* double represents exactly, so they are modelled as integers.            *)
(*                                                                         *)
(* Three specifications share the variables:                               *)
(*   Spec        main(): the program run on an arbitrary input stream;     *)
(*   OrderSpec   an arbitrary client of the Order class;                   *)
(*   BuilderSpec an arbitrary client of the PizzaBuilder class.            *)
(***************************************************************************)
EXTENDS Integers, Sequences, FiniteSets, TLC

VARIABLES
    order,          \* the Order object: [pizzas, observers]
    out,            \* what the last step wrote to cout, a sequence of events
    payment,        \* the Payment object handed to the last checkout
    lastOp,         \* the Order/PizzaBuilder method the last step called last
    builder,        \* the PizzaBuilder object: [name, price]
    calls,          \* per ingredient 1..3, the adds asked of this builder
    built,          \* BuilderSpec: the Pizza the last build() returned
    pc,             \* main(): the read the program is blocked at
    option,         \* main(): int option
    ingrediente,    \* main(): int ingrediente
    paymentOption,  \* main(): int paymentOption
    cinFail,        \* std::cin: failbit is set
    lastTok         \* what the last read found at the head of the stream

vars == <<order, out, payment, lastOp, builder, calls, built,
          pc, option, ingrediente, paymentOption, cinFail, lastTok>>

builderVars == <<builder, calls, built>>
mainVars == <<pc, option, ingrediente, paymentOption, cinFail, lastTok>>

--------------------------------------------------------------------------
(* Bounds of the model.                                                    *)

\* main(): the pizzas one order may hold
MaxItems == 1
\* main(): the ingredient adds of one visit of the custom-pizza sub-menu
MaxAdds == 3
\* OrderSpec: the pizzas and the observers an Order may hold
MaxPizzas == 3
MaxObservers == 2
\* BuilderSpec: the adds one builder may receive
MaxCalls == 4

--------------------------------------------------------------------------
(* Program constants.                                                      *)

PepperoniPrice == 40
HawaiianPrice == 50
CheeseIncrement == 10
PepperoniIncrement == 12
PineappleIncrement == 8

--------------------------------------------------------------------------
(* Pizza and its concrete classes.                                         *)

CustomPizza(n, p) == [name |-> n, price |-> p]

PepperoniPizza == [name |-> "Pizza Pepperoni", price |-> PepperoniPrice]

HawaiianPizza == [name |-> "Pizza Hawaiana", price |-> HawaiianPrice]

getName(pizza) == pizza.name

getPrice(pizza) == pizza.price

NoPizza == [name |-> "", price |-> 0]

--------------------------------------------------------------------------
(* PizzaBuilder.                                                           *)

PizzaBuilder == [name |-> "Pizza Personalizada", price |-> 0]

addCheese(b) == [b EXCEPT !.price = @ + CheeseIncrement]

\* addPepperoni charging the cheese increment
addPepperoniAsCheese(b) == [b EXCEPT !.price = @ + CheeseIncrement]

addPepperoni(b) == [b EXCEPT !.price = @ + PepperoniIncrement]

addPineapple(b) == [b EXCEPT !.price = @ + PineappleIncrement]

build(b) == CustomPizza(b.name, b.price)

--------------------------------------------------------------------------
(* Output events: a line written to cout, with the amount it shows.        *)

Line(text) == [ev |-> text]

Amount(text, amount) == [ev |-> text, amount |-> amount]

--------------------------------------------------------------------------
(* Payment strategies and the adapter.                                     *)

doTransaction(amount) == <<Amount("Pago realizado mediante API externa", amount)>>

pay(method, amount) ==
    CASE method = "CashPayment" -> <<Amount("Pagando en efectivo", amount)>>
      [] method = "CardPayment" -> <<Amount("Pagando con tarjeta", amount)>>
      [] method = "ExternalPaymentAdapter" -> doTransaction(amount)

Payments == {"CashPayment", "CardPayment", "ExternalPaymentAdapter"}

NoPayment == "none"

--------------------------------------------------------------------------
(* Observers.                                                              *)

update(obs, total) ==
    CASE obs = "EmailNotifier" -> <<Amount("[Email] Enviando confirmacion", total)>>
      [] obs = "AuditLogger" -> <<Amount("[Log] Pedido registrado", total)>>

Observers == {"EmailNotifier", "AuditLogger"}

--------------------------------------------------------------------------
(* Order.                                                                  *)

NewOrder == [pizzas |-> <<>>, observers |-> <<>>]

addPizza(o, pizza) == [o EXCEPT !.pizzas = Append(@, pizza)]

addObserver(o, obs) == [o EXCEPT !.observers = Append(@, obs)]

\* for (auto obs : observers) obs->update(total);
RECURSIVE notifyFrom(_, _, _)
notifyFrom(observers, i, total) ==
    IF i > Len(observers) THEN <<>>
    ELSE update(observers[i], total) \o notifyFrom(observers, i + 1, total)

notifyObserversReversed(o, total) ==
    LET n == Len(o.observers)
        rev == [i \in 1..n |-> o.observers[n + 1 - i]]
    IN  notifyFrom(rev, 1, total)

notifyObservers(o, total) == notifyFrom(o.observers, 1, total)

RECURSIVE listFrom(_, _)
listFrom(pizzas, i) ==
    IF i > Len(pizzas) THEN <<>>
    ELSE <<[ev |-> "- item", name |-> getName(pizzas[i]), price |-> getPrice(pizzas[i])]>>
         \o listFrom(pizzas, i + 1)

listOrder(o) == <<Line("Pizzas en el pedido:")>> \o listFrom(o.pizzas, 1)

\* double total = 0; for (pizza : pizzas) total += pizza->getPrice();
RECURSIVE totalFrom(_, _, _)
totalFrom(pizzas, i, total) ==
    IF i > Len(pizzas) THEN total
    ELSE totalFrom(pizzas, i + 1, total + getPrice(pizzas[i]))

calculateTotalLastOnly(o) ==
    IF o.pizzas = <<>> THEN 0 ELSE getPrice(o.pizzas[Len(o.pizzas)])

calculateTotal(o) == totalFrom(o.pizzas, 1, 0)

\* The Order after the call and what the call wrote.
checkoutAndClear(o, paymentMethod) ==
    LET total == calculateTotal(o)
    IN  [order |-> [o EXCEPT !.pizzas = <<>>],
         out   |-> notifyObservers(o, total)
                   \o <<Amount("Total a pagar", total)>>
                   \o pay(paymentMethod, total)]

checkout(o, paymentMethod) ==
    LET total == calculateTotal(o)
    IN  [order |-> o,
         out   |-> notifyObservers(o, total)
                   \o <<Amount("Total a pagar", total)>>
                   \o pay(paymentMethod, total)]

clearOrderAndObservers(o) == [o EXCEPT !.pizzas = <<>>, !.observers = <<>>]

clearOrder(o) == [o EXCEPT !.pizzas = <<>>]

--------------------------------------------------------------------------
(* std::cin >> int.  A token is what stands at the head of the stream when *)
(* the program reads: an integer, text that is no integer, digits of a     *)
(* value no int holds, or the end of the stream.                           *)

\* the int values the model draws inputs and indeterminate values from
Ints == {0, 1, 2, 3, 4, 9}

INT_MAX == 2147483647

IntTok(n) == [kind |-> "int", val |-> n]
BadTok == [kind |-> "bad"]
BigTok == [kind |-> "big"]
EofTok == [kind |-> "eof"]
NoTok == [kind |-> "none"]

Tokens == {IntTok(n) : n \in Ints} \cup {BadTok, BigTok, EofTok}

\* cin >> x, for x holding `x` and failbit being `fail`: the value x holds
\* afterwards and failbit afterwards.  With failbit set the sentry fails and
\* nothing is read or stored; failbit is never cleared by the program.  A
\* failed conversion stores 0, an out-of-range one the nearest int; at the
\* end of the stream the sentry fails and x is left as it was.
Extract(x, fail, tok) ==
    IF fail THEN [val |-> x, fail |-> TRUE]
    ELSE CASE tok.kind = "int" -> [val |-> tok.val, fail |-> FALSE]
           [] tok.kind = "bad" -> [val |-> 0, fail |-> TRUE]
           [] tok.kind = "big" -> [val |-> INT_MAX, fail |-> TRUE]
           [] tok.kind = "eof" -> [val |-> x, fail |-> TRUE]

\* what the read examined: nothing when failbit was already set
Seen(fail, tok) == IF fail THEN NoTok ELSE tok

--------------------------------------------------------------------------
(* OrderSpec: a client calling the public methods of one Order.            *)

NoCalls == [i \in 1..3 |-> 0]

CustomPrices == {0, 18}

PizzaInputs ==
    {PepperoniPizza, HawaiianPizza}
        \cup {CustomPizza("Pizza Personalizada", p) : p \in CustomPrices}

OrderInit ==
    /\ order = NewOrder
    /\ out = <<>>
    /\ payment = NoPayment
    /\ lastOp = "Order"
    /\ builder = PizzaBuilder
    /\ calls = NoCalls
    /\ built = NoPizza
    /\ pc = "client"
    /\ option = 0
    /\ ingrediente = 0
    /\ paymentOption = 0
    /\ cinFail = FALSE
    /\ lastTok = NoTok

AddPizza ==
    /\ Len(order.pizzas) < MaxPizzas
    /\ \E pizza \in PizzaInputs : order' = addPizza(order, pizza)
    /\ out' = <<>>
    /\ lastOp' = "addPizza"
    /\ UNCHANGED <<payment, builderVars, mainVars>>

AddObserver ==
    /\ Len(order.observers) < MaxObservers
    /\ \E obs \in Observers : order' = addObserver(order, obs)
    /\ out' = <<>>
    /\ lastOp' = "addObserver"
    /\ UNCHANGED <<payment, builderVars, mainVars>>

Checkout ==
    /\ \E paymentMethod \in Payments :
          LET r == checkout(order, paymentMethod)
          IN  /\ order' = r.order
              /\ out' = r.out
              /\ payment' = paymentMethod
    /\ lastOp' = "checkout"
    /\ UNCHANGED <<builderVars, mainVars>>

ClearOrder ==
    /\ order' = clearOrder(order)
    /\ out' = <<>>
    /\ lastOp' = "clearOrder"
    /\ UNCHANGED <<payment, builderVars, mainVars>>

OrderNext == AddPizza \/ AddObserver \/ Checkout \/ ClearOrder

OrderSpec == OrderInit /\ [][OrderNext]_vars

--------------------------------------------------------------------------
(* BuilderSpec: a client calling the public methods of a PizzaBuilder.     *)

TotalCalls == calls[1] + calls[2] + calls[3]

Construct ==
    /\ builder' = PizzaBuilder
    /\ calls' = NoCalls
    /\ lastOp' = "PizzaBuilder"
    /\ UNCHANGED <<built, order, out, payment, mainVars>>

Add(i) ==
    /\ TotalCalls < MaxCalls
    /\ builder' = CASE i = 1 -> addCheese(builder)
                    [] i = 2 -> addPepperoni(builder)
                    [] i = 3 -> addPineapple(builder)
    /\ calls' = [calls EXCEPT ![i] = @ + 1]
    /\ lastOp' = "add"
    /\ UNCHANGED <<built, order, out, payment, mainVars>>

AddCheese == Add(1)

AddPepperoni == Add(2)

AddPineapple == Add(3)

Build ==
    /\ built' = build(builder)
    /\ lastOp' = "build"
    /\ UNCHANGED <<builder, calls, order, out, payment, mainVars>>

BuilderNext == Construct \/ AddCheese \/ AddPepperoni \/ AddPineapple \/ Build

BuilderSpec == OrderInit /\ [][BuilderNext]_vars

--------------------------------------------------------------------------
(* Spec: main().  A state is the program blocked at a read of cin (or past *)
(* checkout, or returned); a step runs it from that read to the next one.  *)
(* The stream's content is chosen as it is read.  A local int declared     *)
(* without initializer holds an indeterminate value, chosen from Ints at   *)
(* its declaration.                                                        *)

MenuText == <<Line("=== Menu de Pizzas ==="), Line("Seleccione una opcion: ")>>

IngredientMenu == <<Line("Elija ingredientes para su pizza personalizada:")>>

IngredientPrompt == <<Line("Ingrediente: ")>>

PaymentMenu == <<Line("Seleccione metodo de pago:")>>

Invalid == Line("Opcion no valida.")

InvalidMethod == Line("Metodo invalido. Se usara efectivo por defecto.")

MainInit ==
    /\ order = addObserver(addObserver(NewOrder, "EmailNotifier"), "AuditLogger")
    /\ out = MenuText
    /\ payment = NoPayment
    /\ lastOp = "addObserver"
    /\ builder = PizzaBuilder
    /\ calls = NoCalls
    /\ built = NoPizza
    /\ pc = "option"
    /\ option \in Ints
    /\ ingrediente = 0
    /\ paymentOption = 0
    /\ cinFail = FALSE
    /\ lastTok = NoTok

\* switch (option) with the default label also reaching case 1
optionSwitchFallThrough(o, v) ==
    CASE v = 1 -> [order |-> addPizza(o, PepperoniPizza), out |-> <<>>]
      [] v = 2 -> [order |-> addPizza(o, HawaiianPizza), out |-> <<>>]
      [] v = 4 -> [order |-> o, out |-> <<Line("Finalizando pedido...")>>]
      [] OTHER -> [order |-> addPizza(o, PepperoniPizza), out |-> <<Invalid>>]

\* switch (option), cases 1, 2, 4 and default: the Order afterwards and the
\* lines written (case 3 blocks at a read and is a step of its own)
optionSwitch(o, v) ==
    CASE v = 1 -> [order |-> addPizza(o, PepperoniPizza), out |-> <<>>]
      [] v = 2 -> [order |-> addPizza(o, HawaiianPizza), out |-> <<>>]
      [] v = 4 -> [order |-> o, out |-> <<Line("Finalizando pedido...")>>]
      [] OTHER -> [order |-> o, out |-> <<Invalid>>]

\* } while (option != 4); and what follows up to the next read
afterSwitch(o, opt) ==
    IF opt # 4
    THEN [pc |-> "option", out |-> MenuText]
    ELSE [pc |-> "paymentOption", out |-> listOrder(o) \o PaymentMenu]

\* cin >> option; switch (option) ...
OptionStep ==
    /\ pc = "option"
    /\ \E tok \in Tokens :
          LET r == Extract(option, cinFail, tok)
              v == r.val
          IN  /\ option' = v
              /\ cinFail' = r.fail
              /\ lastTok' = Seen(cinFail, tok)
              /\ IF v = 3
                 THEN /\ Len(order.pizzas) < MaxItems
                      /\ builder' = PizzaBuilder
                      /\ calls' = NoCalls
                      /\ ingrediente' \in Ints
                      /\ out' = IngredientMenu \o IngredientPrompt
                      /\ pc' = "ingrediente"
                      /\ lastOp' = "PizzaBuilder"
                      /\ UNCHANGED <<order, paymentOption>>
                 ELSE LET s == optionSwitch(order, v)
                          a == afterSwitch(s.order, v)
                      IN  /\ Len(s.order.pizzas) <= MaxItems
                          /\ order' = s.order
                          /\ out' = s.out \o a.out
                          /\ pc' = a.pc
                          /\ IF a.pc = "paymentOption"
                             THEN paymentOption' \in Ints
                             ELSE paymentOption' = paymentOption
                          /\ lastOp' = CASE v \in {1, 2} -> "addPizza"
                                         [] v = 4 -> "listOrder"
                                         [] OTHER -> "none"
                          /\ UNCHANGED <<builder, calls, ingrediente>>
    /\ UNCHANGED <<payment, built>>

\* switch (ingrediente) with the default label also reaching case 1
ingredienteSwitchFallThrough(b, v) ==
    CASE v = 1 -> [builder |-> addCheese(b), out |-> <<>>]
      [] v = 2 -> [builder |-> addPepperoni(b), out |-> <<>>]
      [] v = 3 -> [builder |-> addPineapple(b), out |-> <<>>]
      [] v = 0 -> [builder |-> b, out |-> <<>>]
      [] OTHER -> [builder |-> addCheese(b), out |-> <<Invalid>>]

\* switch (ingrediente): the builder afterwards and the lines written
ingredienteSwitch(b, v) ==
    CASE v = 1 -> [builder |-> addCheese(b), out |-> <<>>]
      [] v = 2 -> [builder |-> addPepperoni(b), out |-> <<>>]
      [] v = 3 -> [builder |-> addPineapple(b), out |-> <<>>]
      [] v = 0 -> [builder |-> b, out |-> <<>>]
      [] OTHER -> [builder |-> b, out |-> <<Invalid>>]

\* cin >> ingrediente; switch (ingrediente) ... while (ingrediente != 0);
\* and, the loop left, order.addPizza(builder.build()); break; where the
\* builder goes out of scope (the model then holds a fresh one in its place)
IngredienteStep ==
    /\ pc = "ingrediente"
    /\ \E tok \in Tokens :
          LET r == Extract(ingrediente, cinFail, tok)
              v == r.val
              s == ingredienteSwitch(builder, v)
          IN  /\ ingrediente' = v
              /\ cinFail' = r.fail
              /\ lastTok' = Seen(cinFail, tok)
              /\ v \in 1..3 => TotalCalls < MaxAdds
              /\ IF v # 0
                 THEN /\ builder' = s.builder
                      /\ calls' = IF v \in 1..3 THEN [calls EXCEPT ![v] = @ + 1] ELSE calls
                      /\ out' = s.out \o IngredientPrompt
                      /\ pc' = "ingrediente"
                      /\ lastOp' = IF v \in 1..3 THEN "add" ELSE "none"
                      /\ UNCHANGED <<order, paymentOption>>
                 ELSE LET pizza == build(s.builder)
                          o == addPizza(order, pizza)
                          a == afterSwitch(o, option)
                      IN  /\ order' = o
                          /\ builder' = PizzaBuilder
                          /\ calls' = NoCalls
                          /\ out' = s.out \o a.out
                          /\ pc' = a.pc
                          /\ IF a.pc = "paymentOption"
                             THEN paymentOption' \in Ints
                             ELSE paymentOption' = paymentOption
                          /\ lastOp' = "addPizza"
    /\ UNCHANGED <<payment, option, built>>

\* the payment selection with card as the fallback
selectPaymentCardDefault(v) ==
    CASE v = 1 -> [payment |-> "CashPayment", out |-> <<>>]
      [] v = 2 -> [payment |-> "CardPayment", out |-> <<>>]
      [] v = 3 -> [payment |-> "ExternalPaymentAdapter", out |-> <<>>]
      [] OTHER -> [payment |-> "CardPayment", out |-> <<InvalidMethod>>]

\* if (paymentOption == 1) ... else ...: the Payment created, the lines written
selectPayment(v) ==
    CASE v = 1 -> [payment |-> "CashPayment", out |-> <<>>]
      [] v = 2 -> [payment |-> "CardPayment", out |-> <<>>]
      [] v = 3 -> [payment |-> "ExternalPaymentAdapter", out |-> <<>>]
      [] OTHER -> [payment |-> "CashPayment", out |-> <<InvalidMethod>>]

\* cin >> paymentOption; ... order.checkout(payment);
PaymentStep ==
    /\ pc = "paymentOption"
    /\ \E tok \in Tokens :
          LET r == Extract(paymentOption, cinFail, tok)
              v == r.val
              s == selectPayment(v)
              c == checkout(order, s.payment)
          IN  /\ paymentOption' = v
              /\ cinFail' = r.fail
              /\ lastTok' = Seen(cinFail, tok)
              /\ payment' = s.payment
              /\ order' = c.order
              /\ out' = s.out \o c.out
    /\ lastOp' = "checkout"
    /\ pc' = "checkedout"
    /\ UNCHANGED <<builderVars, option, ingrediente>>

\* the program going back to the menu after checkout
ExitStepBackToMenu ==
    /\ pc = "checkedout"
    /\ payment' = NoPayment
    /\ order' = clearOrder(order)
    /\ out' = MenuText
    /\ lastOp' = "clearOrder"
    /\ pc' = "option"
    /\ UNCHANGED <<builderVars, option, ingrediente, paymentOption, cinFail, lastTok>>

\* delete payment; order.clearOrder(); return 0;
ExitStep ==
    /\ pc = "checkedout"
    /\ payment' = NoPayment
    /\ order' = clearOrder(order)
    /\ out' = <<>>
    /\ lastOp' = "clearOrder"
    /\ pc' = "done"
    /\ UNCHANGED <<builderVars, option, ingrediente, paymentOption, cinFail, lastTok>>

Next == OptionStep \/ IngredienteStep \/ PaymentStep \/ ExitStep

\* The program runs on while it is not blocked: a read returns on any
\* stream, its end included.
Spec == MainInit /\ [][Next]_vars /\ WF_vars(Next)

--------------------------------------------------------------------------
(* Properties of the Order class, checked under OrderSpec.                 *)

\* the events of a sequence that carry an amount
Amounts(events) == {events[i].amount : i \in 1..Len(events)}

\* C1: a checkout writes, for the observers registered at its start and in
\* their registration order, one update each carrying calculateTotal() as it
\* was at the start, then the total line, and last, once, the pay of the
\* payment method it was given, with that same total.
C1_NotifyThenPay ==
    [][lastOp' = "checkout" =>
          LET n == Len(order.observers)
              total == calculateTotal(order)
          IN  /\ Len(out') = n + 2
              /\ \A i \in 1..n : <<out'[i]>> = update(order.observers[i], total)
              /\ out'[n + 1] = Amount("Total a pagar", total)
              /\ <<out'[n + 2]>> = pay(payment', total)
              /\ \A i \in 1..(n + 1) : <<out'[i]>> # pay(payment', total)
      ]_vars

C1_Witness ==
    /\ lastOp = "checkout"
    /\ order.observers = <<"AuditLogger", "EmailNotifier">>
    /\ Len(order.pizzas) = 2
    /\ Len(out) = 4
    /\ out[1].ev = "[Log] Pedido registrado"
    /\ out[4] = Amount("Pagando con tarjeta", calculateTotal(order))

MenuOnly(pizzas) ==
    \A i \in 1..Len(pizzas) : pizzas[i] \in {PepperoniPizza, HawaiianPizza}

CountOf(pizzas, pizza) == Cardinality({i \in 1..Len(pizzas) : pizzas[i] = pizza})

\* C2: whenever the order holds menu pizzas only, calculateTotal() is 40 times
\* the Pepperoni pizzas plus 50 times the Hawaiian pizzas it holds now; the
\* total of any order is never negative.
C2_TotalIsSumOfPrices ==
    /\ calculateTotal(order) >= 0
    /\ MenuOnly(order.pizzas) =>
          calculateTotal(order) = 40 * CountOf(order.pizzas, PepperoniPizza)
                                  + 50 * CountOf(order.pizzas, HawaiianPizza)

C2_Witness ==
    /\ order.pizzas = <<PepperoniPizza, HawaiianPizza, PepperoniPizza>>
    /\ calculateTotal(order) = 130

\* C3: clearOrder() leaves no item and a total of 0 and leaves the observer
\* sequence as it was; a checkout right after it notifies every one of them.
C3_ClearKeepsObservers ==
    [][/\ lastOp' = "clearOrder" =>
              /\ order'.pizzas = <<>>
              /\ calculateTotal(order') = 0
              /\ order'.observers = order.observers
       /\ (lastOp = "clearOrder" /\ lastOp' = "checkout") =>
              /\ Len(out') = Len(order.observers) + 2
              /\ \A i \in 1..Len(order.observers) :
                    <<out'[i]>> = update(order.observers[i], 0)
      ]_vars

C3_Witness ==
    /\ lastOp = "clearOrder"
    /\ order.pizzas = <<>>
    /\ order.observers = <<"EmailNotifier", "AuditLogger">>
    /\ payment # NoPayment

\* C10: a checkout leaves the items and the observers as they were; of two
\* checkouts in a row the second writes as many events as the first, every
\* one with the same total; and after a checkout a pizza can still be added.
C10_CheckoutKeepsOrder ==
    /\ [][lastOp' = "checkout" => order' = order]_vars
    /\ [][(lastOp = "checkout" /\ lastOp' = "checkout") =>
              /\ Len(out') = Len(out)
              /\ Amounts(out') = {calculateTotal(order)}
              /\ Amounts(out) = {calculateTotal(order)}
              /\ \A i \in 1..Len(order.observers) : out'[i] = out[i]
         ]_vars
    /\ [](lastOp = "checkout" /\ Len(order.pizzas) < MaxPizzas => ENABLED AddPizza)

C10_Witness ==
    /\ lastOp = "checkout"
    /\ Len(order.pizzas) = 2
    /\ Len(order.observers) = 2
    /\ Len(out) = 4

--------------------------------------------------------------------------
(* Properties of the PizzaBuilder class, checked under BuilderSpec.        *)

\* C4: the pizza build() returns costs 10 for every addCheese, 12 for every
\* addPepperoni and 8 for every addPineapple the builder received since it
\* was constructed, whatever their order.
C4_BuilderPrice ==
    /\ builder.price = 10 * calls[1] + 12 * calls[2] + 8 * calls[3]
    /\ lastOp = "build" =>
          getPrice(built) = 10 * calls[1] + 12 * calls[2] + 8 * calls[3]

C4_Witness ==
    /\ lastOp = "build"
    /\ calls = [i \in 1..3 |-> IF i = 1 THEN 2 ELSE 1]
    /\ getPrice(built) = 40

--------------------------------------------------------------------------
(* Properties of main(), checked under Spec.                               *)

Contains(events, e) == \E i \in 1..Len(events) : events[i] = e

\* C5: at the top-level menu an integer other than 1, 2, 3 and 4 leaves the
\* items and the observers as they were, writes the invalid-option line and
\* then the menu again, and the program waits for another choice there.
C5_InvalidOptionKeepsOrder ==
    [][(pc = "option" /\ lastTok'.kind = "int" /\ lastTok'.val \notin {1, 2, 3, 4}) =>
          /\ order' = order
          /\ out' = <<Invalid>> \o MenuText
          /\ pc' = "option"
          /\ ~cinFail'
      ]_vars

C5_Witness ==
    /\ pc = "option"
    /\ lastTok = IntTok(9)
    /\ option = 9
    /\ Len(order.pizzas) = 1
    /\ out = <<Invalid>> \o MenuText

\* C6: text that is no integer, read at the prompt of the top-level menu or of
\* the custom-pizza sub-menu, has the program write the invalid-option line
\* and wait at the same prompt again, with the stream usable so that the next
\* choice is read.
C6_MalformedInputReprompts ==
    [][(pc \in {"option", "ingrediente"} /\ lastTok' = BadTok) =>
          /\ pc' = pc
          /\ Contains(out', Invalid)
          /\ ~cinFail'
      ]_vars

\* C7: at the payment prompt 1 selects cash, 2 card, 3 the adapter, and
\* anything else read there selects cash and writes the warning; the step
\* asks once, and its checkout ends with the pay of the selected method, and
\* of no other, with the order's total.
C7_PaymentSelection ==
    [][(pc = "paymentOption" /\ lastTok'.kind \in {"int", "bad", "big"}) =>
          LET chosen == IF lastTok'.kind = "int" /\ lastTok'.val \in {1, 2, 3}
                        THEN lastTok'.val ELSE 0
              total == calculateTotal(order)
              paid == {i \in 1..Len(out') :
                          /\ "amount" \in DOMAIN out'[i]
                          /\ \E m \in Payments : <<out'[i]>> = pay(m, out'[i].amount)}
          IN  /\ payment' = CASE chosen = 1 -> "CashPayment"
                              [] chosen = 2 -> "CardPayment"
                              [] chosen = 3 -> "ExternalPaymentAdapter"
                              [] OTHER -> "CashPayment"
              /\ Contains(out', InvalidMethod) <=> chosen = 0
              /\ paid = {Len(out')}
              /\ <<out'[Len(out')]>> = pay(payment', total)
              /\ pc' = "checkedout"
      ]_vars

C7_Witness ==
    /\ pc = "checkedout"
    /\ lastTok = IntTok(9)
    /\ payment = "CashPayment"
    /\ order.pizzas = <<HawaiianPizza>>
    /\ out[1] = InvalidMethod
    /\ out[Len(out)] = Amount("Pagando en efectivo", calculateTotal(order))

\* C8: a checkout is made only from the payment prompt, which is reached only
\* by the top-level switch taking option 4; after it the program only clears
\* the order and returns, never going back to a menu or to a second checkout;
\* and once option 4 is taken the program does return.
C8_OneCheckoutThenExit ==
    /\ [][/\ lastOp' = "checkout" => (pc = "paymentOption" /\ option = 4)
          /\ pc' = "paymentOption" => (pc = "option" /\ option' = 4)
          /\ pc = "paymentOption" => (pc' = "checkedout" /\ lastOp' = "checkout")
          /\ pc = "checkedout" =>
                (pc' = "done" /\ order'.pizzas = <<>> /\ lastOp' = "clearOrder")
          /\ pc # "done"
         ]_vars
    /\ (pc = "paymentOption") ~> (pc = "done")

C8_Witness ==
    /\ pc = "done"
    /\ option = 4
    /\ lastTok = IntTok(2)
    /\ order.pizzas = <<>>
    /\ order.observers = <<"EmailNotifier", "AuditLogger">>
    /\ lastOp = "clearOrder"

IncrementOf(n) == CASE n = 1 -> 10 [] n = 2 -> 12 [] n = 3 -> 8 [] OTHER -> 0

====
